---- MODULE Spec2Model ----
(***************************************************************************)
(* cligateway: an HTTP gateway to command line apps (src/cligateway.go).   *)
(*                                                                         *)
(* Go strings whose characters the code inspects (command names, flags,    *)
(* arguments, environment entries) are sequences of one-character strings; *)
(* the empty Go string is <<>>.  Opaque texts (error messages, process     *)
(* output) are TLA+ strings.  A Go map is a TLA+ function; the order in    *)
(* which `range` visits it is chosen by the runtime and is an explicit     *)
(* parameter (order) of the operators that iterate over a map.  A nil      *)
(* slice is the empty sequence.                                            *)
(***************************************************************************)
EXTENDS Integers, Sequences, FiniteSets, TLC

\* ------------------------------------------------------------------ bounds
MaxReqs == 2        \* requests handled concurrently
MaxArgs == 4        \* length of an argument vector given to argsFilter
MaxPairs == 2       \* entries of a flags / envs mapping given to the converters

Reqs == 1..MaxReqs

\* ------------------------------------------------------- strings (package strings)
Lowers == <<"a","b","c","d","e","f","g","h","i","j","k","l","m","n","o","p","q","r","s","t","u","v","w","x","y","z">>
Uppers == <<"A","B","C","D","E","F","G","H","I","J","K","L","M","N","O","P","Q","R","S","T","U","V","W","X","Y","Z">>

IsSpace(c) == c \in {" ", "\t", "\n", "\r"}

RECURSIVE TrimLeft(_)
TrimLeft(s) ==
    IF s # <<>> /\ IsSpace(Head(s)) THEN TrimLeft(Tail(s)) ELSE s

RECURSIVE TrimRight(_)
TrimRight(s) ==
    IF s # <<>> /\ IsSpace(s[Len(s)]) THEN TrimRight(SubSeq(s, 1, Len(s) - 1)) ELSE s

TrimSpace(s) == TrimRight(TrimLeft(s))

HasPrefix(s, p) == Len(s) >= Len(p) /\ SubSeq(s, 1, Len(p)) = p

ToUpperChar(c) ==
    IF \E i \in 1..Len(Lowers) : Lowers[i] = c
    THEN Uppers[CHOOSE i \in 1..Len(Lowers) : Lowers[i] = c]
    ELSE c

ToUpper(s) == [i \in 1..Len(s) |-> ToUpperChar(s[i])]

ToLowerChar(c) ==
    IF \E i \in 1..Len(Uppers) : Uppers[i] = c
    THEN Lowers[CHOOSE i \in 1..Len(Uppers) : Uppers[i] = c]
    ELSE c

ToLower(s) == [i \in 1..Len(s) |-> ToLowerChar(s[i])]

\* strings.Split(s, sep) for a one-character separator: Split("", " ") = [""]
RECURSIVE Split(_, _)
Split(s, sep) ==
    IF \E i \in 1..Len(s) : s[i] = sep
    THEN LET i == CHOOSE j \in 1..Len(s) : s[j] = sep /\ \A h \in 1..(j - 1) : s[h] # sep
         IN  <<SubSeq(s, 1, i - 1)>> \o Split(SubSeq(s, i + 1, Len(s)), sep)
    ELSE <<s>>

\* the orders in which `range` may visit the keys of a map
Orders(m) ==
    {o \in [1..Cardinality(DOMAIN m) -> DOMAIN m] :
        \A i, j \in 1..Cardinality(DOMAIN m) : o[i] = o[j] => i = j}

\* the nil / empty map[string]string
EmptyMap == [k \in {} |-> <<>>]

\* ------------------------------------------------------------------ state
VARIABLES
    addDashes,      \* *addDashes
    envKeyToUpper,  \* *envKeyToUpper
    responseType,   \* *responseType
    whitelist,      \* whitelist
    myRunner,       \* myRunner: "runJson" or "runText"
    mainPc,         \* position of main: "start", "serving", "exited"; "unit" for direct calls
    pc,             \* per request: "idle", "running" (blocked in cmd.Run), "done"
    input,          \* per request: the HTTP request as received
    guardCalls,     \* per request: the commands inWhitelist was called with
    runs,           \* per request: the exec.Cmd values handed to myRunner
    result,         \* per request: the outcome of the child process
    responses,      \* per request: the status/body pairs written to the client
    call,           \* a direct call of a converter and its arguments
    ret             \* the value the direct call returned

config == <<addDashes, envKeyToUpper, responseType, whitelist, myRunner>>
reqVars == <<pc, input, guardCalls, runs, result, responses>>
unitVars == <<call, ret>>
vars == <<addDashes, envKeyToUpper, responseType, whitelist, myRunner, mainPc,
          pc, input, guardCalls, runs, result, responses, call, ret>>

\* --------------------------------------------------------- invocation model
\* type request: the zero value of a request (nil maps, nil slice, "")
ZeroRequest == [command |-> <<>>, flags |-> EmptyMap, args |-> <<>>, envs |-> EmptyMap]

\* the tokens flagStrings appends for one entry of req.flags
FlagTokens(k0, v0) ==
    LET k  == TrimSpace(k0)
        v  == TrimSpace(v0)
        k2 == IF addDashes /\ ~HasPrefix(k, <<"-">>)
              THEN IF Len(k) = 1 THEN <<"-">> \o k ELSE <<"-", "-">> \o k
              ELSE k
    IN  <<k2>> \o (IF v # <<>> THEN <<v>> ELSE <<>>)

\* req.flagStrings(); order is the order in which range visits req.flags
RECURSIVE flagStrings(_, _)
flagStrings(flags, order) ==
    IF order = <<>> THEN <<>>
    ELSE FlagTokens(Head(order), flags[Head(order)]) \o flagStrings(flags, Tail(order))

\* the string envStrings appends for one entry of req.envs
EnvEntry(k0, v0) ==
    LET k  == TrimSpace(k0)
        v  == TrimSpace(v0)
        k2 == IF envKeyToUpper THEN ToUpper(k) ELSE k
    IN  k2 \o <<"=">> \o v

\* req.envStrings(); order is the order in which range visits req.envs
RECURSIVE envStrings(_, _)
envStrings(envs, order) ==
    IF order = <<>> THEN <<>>
    ELSE <<EnvEntry(Head(order), envs[Head(order)])>> \o envStrings(envs, Tail(order))

\* req.fullArgs() = flagStrings + args
fullArgs(req, order) == flagStrings(req.flags, order) \o req.args

\* ------------------------------------------------------------ whitelist guard
inWhitelist(command) == \E i \in 1..Len(whitelist) : whitelist[i] = command

\* respError: c.JSON(status, {"error": message})
respError(status, message) ==
    [status |-> status, kind |-> "json", body |-> [error |-> message]]

\* checkCommand: the responses it writes; it returns nothing to its caller
checkCommand(command, args) ==
    IF ~inWhitelist(command)
    THEN <<respError(403, "command not allowed.")>>
    ELSE <<>>

\* --------------------------------------------------------- argument sanitizer
RECURSIVE argsFilter(_)
argsFilter(args) ==
    IF args = <<>> THEN <<>>
    ELSE IF Head(args) = <<>> THEN argsFilter(Tail(args))
    ELSE <<TrimSpace(Head(args))>> \o argsFilter(Tail(args))

\* ----------------------------------------------------------- process executor
\* os.Environ() of the gateway process
HostEnviron == << <<"H","O","M","E","=","/">>, <<"P","A","T","H","=","/","b","i","n">> >>

\* exec.CommandContext(c, command, args...) followed by cmd.Env = env
NewCmd(command, args, env) == [Path |-> command, Args |-> args, Env |-> env]

\* the environment os/exec gives the child: a nil cmd.Env means os.Environ()
ChildEnv(cmd) == IF cmd.Env = <<>> THEN HostEnviron ELSE cmd.Env

\* what the child writes to fd 1 / fd 2 / both, in the order written
RECURSIVE Written(_, _)
Written(chunks, fds) ==
    IF chunks = <<>> THEN ""
    ELSE (IF Head(chunks).fd \in fds THEN Head(chunks).data ELSE "") \o Written(Tail(chunks), fds)

\* the outcomes of cmd.Run() / cmd.CombinedOutput(): err = "" is a nil error
Outcomes ==
    { [err |-> "", chunks |-> <<>>],
      [err |-> "", chunks |-> <<[fd |-> 2, data |-> "warn;"], [fd |-> 1, data |-> "/srv;"]>>],
      [err |-> "exit status 1", chunks |-> <<[fd |-> 1, data |-> "part;"], [fd |-> 2, data |-> "boom;"]>>],
      [err |-> "exec: not found", chunks |-> <<>>] }

\* exec.Command with an empty name fails to start whatever the host holds
OutcomesOf(cmd) ==
    IF cmd.Path = <<>> THEN {[err |-> "exec: no command", chunks |-> <<>>]} ELSE Outcomes

\* runFailed answering with the success status
runFailedStatusOK(err) == respError(200, "failed to run cmd: " \o err)

\* runFailed: respError(c, 500, "failed to run cmd: " + err.Error())
runFailed(err) == respError(500, "failed to run cmd: " \o err)

\* runText: the response written once cmd.CombinedOutput() returned o
runText(o) ==
    IF o.err # "" THEN runFailed(o.err)
    ELSE [status |-> 200, kind |-> "text", body |-> [text |-> Written(o.chunks, {1, 2})]]

\* runJson: the response written once cmd.Run() returned o
runJson(o) ==
    IF o.err # "" THEN runFailed(o.err)
    ELSE [status |-> 200, kind |-> "json",
          body |-> [stdout |-> Written(o.chunks, {1}), stderr |-> Written(o.chunks, {2})]]

\* ------------------------------------------------------------------ inputs
pwd == <<"p","w","d">>
echo == <<"e","c","h","o">>
rm == <<"r","m">>

\* the command lines the gateway is started with
CommandLines ==
    { \* cligateway pwd
      [addDashes |-> FALSE, envKeyToUpper |-> FALSE, resp |-> <<"j","s","o","n">>, args |-> <<pwd>>],
      \* cligateway -add-dashes -env-key-to-upper -resp TEXT pwd echo
      [addDashes |-> TRUE, envKeyToUpper |-> TRUE, resp |-> <<"T","E","X","T">>, args |-> <<pwd, echo>>],
      \* cligateway -resp xml echo
      [addDashes |-> FALSE, envKeyToUpper |-> TRUE, resp |-> <<"x","m","l">>, args |-> <<echo>>],
      \* cligateway -resp text ""
      [addDashes |-> TRUE, envKeyToUpper |-> FALSE, resp |-> <<"t","e","x","t">>, args |-> << <<>> >>],
      \* cligateway
      [addDashes |-> FALSE, envKeyToUpper |-> FALSE, resp |-> <<"j","s","o","n">>, args |-> <<>>] }

NoBody == [wellFormed |-> FALSE, command |-> <<>>, flags |-> <<>>, args |-> <<>>, envs |-> <<>>]
NoInput == [method |-> "", command |-> <<>>, argsParam |-> <<>>, query |-> <<>>, body |-> NoBody]

\* GET /:command/*args?query: argsParam is c.Param("args"), leading slash included;
\* query lists the key=value pairs of the URL in the order they appear
GetRequest(command, argsParam, query) ==
    [method |-> "GET", command |-> command, argsParam |-> argsParam, query |-> query, body |-> NoBody]

GetRequests ==
    { \* GET /pwd/
      GetRequest(pwd, <<"/">>, <<>>),
      \* GET /rm/-rf//
      GetRequest(rm, <<"/","-","r","f","/","/">>, <<>>),
      \* GET /echo/%20/x
      GetRequest(echo, <<"/"," ","/","x">>, <<>>),
      \* GET /pwd/?l=1&l=2
      GetRequest(pwd, <<"/">>, << << <<"l">>, <<"1">> >>, << <<"l">>, <<"2">> >> >>),
      \* GET /echo/x?=1
      GetRequest(echo, <<"/","x">>, << << <<>>, <<"1">> >> >>) }

\* POST / with a JSON body; flags and envs list the members of the JSON
\* objects in the order they are written
PostRequest(body) ==
    [method |-> "POST", command |-> <<>>, argsParam |-> <<>>, query |-> <<>>, body |-> body]

PostRequests ==
    { \* not JSON
      PostRequest(NoBody),
      \* {"command": "echo hi", "args": ["there"]}
      PostRequest([wellFormed |-> TRUE, command |-> <<"e","c","h","o"," ","h","i">>,
                   flags |-> <<>>, args |-> << <<"t","h","e","r","e">> >>, envs |-> <<>>]),
      \* {"command": ""}
      PostRequest([wellFormed |-> TRUE, command |-> <<>>, flags |-> <<>>, args |-> <<>>, envs |-> <<>>]),
      \* {"command": "pwd", "flags": {"a": "", "bee": "1"}, "envs": {"k": "v"}}
      PostRequest([wellFormed |-> TRUE, command |-> pwd,
                   flags |-> << << <<"a">>, <<>> >>, << <<"b","e","e">>, <<"1">> >> >>,
                   args |-> <<>>, envs |-> << << <<"k">>, <<"v">> >> >>]) }

\* ------------------------------------------------------- request translators
\* c.Request.URL.Query(): key -> the values of that key, in order of appearance
RECURSIVE ValuesOf(_, _)
ValuesOf(query, k) ==
    IF query = <<>> THEN <<>>
    ELSE (IF Head(query)[1] = k THEN <<Head(query)[2]>> ELSE <<>>) \o ValuesOf(Tail(query), k)

Query(query) ==
    [k \in {query[i][1] : i \in 1..Len(query)} |-> ValuesOf(query, k)]

\* c.Bind(&req): every field of request is unexported, so neither the decoder
\* nor the `binding:"required"` validation sees one; a body that parses
\* leaves req at its zero value
Bind(body) ==
    IF body.wellFormed
    THEN [err |-> "", req |-> ZeroRequest]
    ELSE [err |-> "invalid request body", req |-> ZeroRequest]

\* gin.Recovery(): a panic in a handler aborts the request with status 500
Recovered == [status |-> 500, kind |-> "none", body |-> [none |-> TRUE]]

\* cmd kept in one package-level variable that every handler shares
StartCmdShared(r, cmd) == [q \in Reqs |-> Append(runs[q], cmd)]

\* cmd is a local variable of run, one per handler invocation
StartCmd(r, cmd) == [runs EXCEPT ![r] = Append(@, cmd)]

\* run, up to the point where myRunner blocks in cmd.Run / cmd.CombinedOutput;
\* written are the responses the handler wrote before calling run
run(r, written, command, args, env) ==
    /\ guardCalls' = [guardCalls EXCEPT ![r] = Append(@, command)]
    /\ responses' = [responses EXCEPT ![r] = written \o checkCommand(command, args)]
    /\ runs' = StartCmd(r, NewCmd(command, argsFilter(args), env))
    /\ pc' = [pc EXCEPT ![r] = "running"]

\* ----------------------------------------------------------------- actions
Init ==
    /\ addDashes = FALSE
    /\ envKeyToUpper = FALSE
    /\ responseType = <<"j","s","o","n">>
    /\ whitelist = <<pwd>>
    /\ myRunner = "runJson"
    /\ mainPc = "start"
    /\ pc = [r \in Reqs |-> "idle"]
    /\ input = [r \in Reqs |-> NoInput]
    /\ guardCalls = [r \in Reqs |-> <<>>]
    /\ runs = [r \in Reqs |-> <<>>]
    /\ result = [r \in Reqs |-> <<>>]
    /\ responses = [r \in Reqs |-> <<>>]
    /\ call = [fn |-> "", args |-> <<>>, pairs |-> <<>>]
    /\ ret = <<>>

\* main: flag.Parse, the whitelist, the runner, then r.Run
Main ==
    /\ mainPc = "start"
    /\ \E cl \in CommandLines :
        /\ addDashes' = cl.addDashes
        /\ envKeyToUpper' = cl.envKeyToUpper
        /\ whitelist' = cl.args
        /\ IF Len(cl.args) = 0
           THEN /\ mainPc' = "exited"
                /\ responseType' = cl.resp
                /\ UNCHANGED myRunner
           ELSE /\ mainPc' = "serving"
                /\ IF ToLower(cl.resp) = <<"t","e","x","t">>
                   THEN /\ myRunner' = "runText"
                        /\ responseType' = cl.resp
                   ELSE /\ myRunner' = "runJson"
                        /\ responseType' = <<"j","s","o","n">>
    /\ UNCHANGED <<reqVars, unitVars>>

\* getHandler: req.flags is never made, so storing a query parameter in it
\* panics; otherwise the request goes to run with a nil env
GetHandler(r) ==
    /\ mainPc = "serving"
    /\ pc[r] = "idle"
    /\ \E in \in GetRequests :
        LET req == [ZeroRequest EXCEPT !.command = in.command,
                                       !.args = Split(in.argsParam, "/")]
            q == Query(in.query)
            stored == {k \in DOMAIN q : k # <<>> /\ Len(q[k]) > 0}
        IN  /\ input' = [input EXCEPT ![r] = in]
            /\ IF stored # {}
               THEN /\ responses' = [responses EXCEPT ![r] = <<Recovered>>]
                    /\ pc' = [pc EXCEPT ![r] = "done"]
                    /\ UNCHANGED <<guardCalls, runs>>
               ELSE \E order \in Orders(req.flags) :
                        run(r, <<>>, req.command, fullArgs(req, order), <<>>)
    /\ UNCHANGED <<config, mainPc, result, unitVars>>

\* postHandler
PostHandler(r) ==
    /\ mainPc = "serving"
    /\ pc[r] = "idle"
    /\ \E in \in PostRequests :
        LET b == Bind(in.body)
            req == b.req
            cmds == Split(req.command, " ")
            written == IF Len(cmds) < 1 THEN <<respError(400, "no command given")>> ELSE <<>>
            command == cmds[1]
            subcmds == Tail(cmds)
        IN  /\ input' = [input EXCEPT ![r] = in]
            /\ IF b.err # ""
               THEN /\ responses' = [responses EXCEPT ![r] = <<respError(400, b.err)>>]
                    /\ pc' = [pc EXCEPT ![r] = "done"]
                    /\ UNCHANGED <<guardCalls, runs>>
               ELSE \E forder \in Orders(req.flags), eorder \in Orders(req.envs) :
                        run(r, written, command, subcmds \o fullArgs(req, forder),
                            envStrings(req.envs, eorder))
    /\ UNCHANGED <<config, mainPc, result, unitVars>>

\* myRunner, from the return of cmd.Run / cmd.CombinedOutput on
RunnerReturn(r) ==
    /\ pc[r] = "running"
    /\ \E o \in OutcomesOf(runs[r][Len(runs[r])]) :
        /\ result' = [result EXCEPT ![r] = Append(@, o)]
        /\ responses' = [responses EXCEPT ![r] =
                            Append(@, IF myRunner = "runText" THEN runText(o) ELSE runJson(o))]
    /\ pc' = [pc EXCEPT ![r] = "done"]
    /\ UNCHANGED <<config, mainPc, input, guardCalls, runs, unitVars>>

Next ==
    \/ Main
    \/ \E r \in Reqs : GetHandler(r)
    \/ \E r \in Reqs : PostHandler(r)
    \/ \E r \in Reqs : RunnerReturn(r)

Spec == Init /\ [][Next]_vars

\* ------------------------------------------- direct calls of the converters
\* sequences over S of length at most n
SeqsUpTo(S, n) == UNION {[1..m -> S] : m \in 0..n}

ArgStrings == { <<>>, <<" ">>, <<"x">>, <<" ","x"," ">> }
FlagKeys == { <<"a">>, <<"b","e","e">>, <<"-","v">>, <<" ","k"," ">> }
FlagValues == { <<>>, <<"1">> }
EnvKeys == { <<"k">>, <<" ","P","a","t","h">> }
EnvValues == { <<"v">>, <<>> }

\* the members of a JSON object, in the order written, keys distinct
PairSeqs(keys, values) ==
    {ps \in SeqsUpTo(keys \X values, MaxPairs) :
        \A i, j \in 1..Len(ps) : ps[i][1] = ps[j][1] => i = j}

\* the map[string]string holding the pairs
MapOf(pairs) ==
    [k \in {pairs[i][1] : i \in 1..Len(pairs)} |->
        pairs[CHOOSE i \in 1..Len(pairs) : pairs[i][1] = k][2]]

Calls ==
    {[fn |-> "argsFilter", args |-> a, pairs |-> <<>>] : a \in SeqsUpTo(ArgStrings, MaxArgs)}
    \cup {[fn |-> "flagStrings", args |-> <<>>, pairs |-> ps] : ps \in PairSeqs(FlagKeys, FlagValues)}
    \cup {[fn |-> "envStrings", args |-> <<>>, pairs |-> ps] : ps \in PairSeqs(EnvKeys, EnvValues)}

InitUnit ==
    /\ addDashes \in BOOLEAN
    /\ envKeyToUpper \in BOOLEAN
    /\ responseType = <<"j","s","o","n">>
    /\ whitelist = <<pwd>>
    /\ myRunner = "runJson"
    /\ mainPc = "unit"
    /\ pc = [r \in Reqs |-> "idle"]
    /\ input = [r \in Reqs |-> NoInput]
    /\ guardCalls = [r \in Reqs |-> <<>>]
    /\ runs = [r \in Reqs |-> <<>>]
    /\ result = [r \in Reqs |-> <<>>]
    /\ responses = [r \in Reqs |-> <<>>]
    /\ call \in Calls
    /\ ret = <<>>

CallArgsFilter ==
    /\ call.fn = "argsFilter"
    /\ ret = <<>>
    /\ ret' = <<argsFilter(call.args)>>
    /\ UNCHANGED <<config, mainPc, reqVars, call>>

CallFlagStrings ==
    /\ call.fn = "flagStrings"
    /\ ret = <<>>
    /\ \E order \in Orders(MapOf(call.pairs)) :
        ret' = <<flagStrings(MapOf(call.pairs), order)>>
    /\ UNCHANGED <<config, mainPc, reqVars, call>>

CallEnvStrings ==
    /\ call.fn = "envStrings"
    /\ ret = <<>>
    /\ \E order \in Orders(MapOf(call.pairs)) :
        ret' = <<envStrings(MapOf(call.pairs), order)>>
    /\ UNCHANGED <<config, mainPc, reqVars, call>>

NextUnit ==
    \/ CallArgsFilter
    \/ CallFlagStrings
    \/ CallEnvStrings

SpecUnit == InitUnit /\ [][NextUnit]_vars

\* ------------------------------------------------------------------ claims
\* the keys of a pair list in the order written
KeysInOrder(pairs) == [i \in 1..Len(pairs) |-> pairs[i][1]]

IsErrorBody(resp) == resp.kind = "json" /\ DOMAIN resp.body = {"error"}

\* C1: when the whitelist guard rejects the command of a request, no process
\* is spawned for that request: the executor is never reached.
C1_NoSpawnWhenRejected ==
    \A r \in Reqs :
        (\E i \in 1..Len(guardCalls[r]) : ~inWhitelist(guardCalls[r][i])) => runs[r] = <<>>

\* C2: a failing request is terminal: exactly one JSON error body with one
\* status is written, and nothing is written for the request besides it.
C2_ExactlyOneErrorResponse ==
    \A r \in Reqs :
        (\E i \in 1..Len(responses[r]) : IsErrorBody(responses[r][i])) => Len(responses[r]) = 1

\* C3: the child never inherits the host environment: its environment is
\* exactly the vector handed to the executor, which is empty for every GET.
C3_EnvNotInherited ==
    \A r \in Reqs : \A i \in 1..Len(runs[r]) :
        /\ ChildEnv(runs[r][i]) = runs[r][i].Env
        /\ input[r].method = "GET" => ChildEnv(runs[r][i]) = <<>>

\* C4: a request whose command is the empty string gets a 400 before the
\* whitelist lookup: the guard is not called with it and nothing is spawned.
C4_EmptyCommandRejected ==
    \A r \in Reqs :
        /\ \A i \in 1..Len(guardCalls[r]) : guardCalls[r][i] # <<>>
        /\ (input[r].method = "POST" /\ input[r].body.wellFormed
                /\ input[r].body.command = <<>> /\ pc[r] # "idle")
            => /\ runs[r] = <<>>
               /\ responses[r] # <<>>
               /\ responses[r][1].status = 400

\* C5: for a POST body the program run is the first token of command and the
\* argument vector is the remaining tokens, then the flag tokens, then args,
\* sanitized.
C5_PostInvocation ==
    \A r \in Reqs :
        (input[r].method = "POST" /\ input[r].body.wellFormed /\ runs[r] # <<>>)
        => LET b == input[r].body
               cmds == Split(b.command, " ")
           IN  /\ runs[r][1].Path = cmds[1]
               /\ \E order \in Orders(MapOf(b.flags)) :
                    runs[r][1].Args =
                        argsFilter(Tail(cmds) \o flagStrings(MapOf(b.flags), order) \o b.args)

\* the flags a GET query stands for: every non-empty key with a value, mapped
\* to its first value
QueryFlags(query) ==
    LET q == Query(query)
    IN  [k \in {k \in DOMAIN q : k # <<>> /\ Len(q[k]) > 0} |-> q[k][1]]

\* C6: a GET request, query parameters or not, reaches the guard and the
\* executor with the flag tokens of its query followed by its path segments,
\* and with no environment.
C6_GetQueryFlags ==
    \A r \in Reqs :
        (input[r].method = "GET" /\ pc[r] # "idle")
        => /\ guardCalls[r] = <<input[r].command>>
           /\ runs[r] # <<>>
           /\ runs[r][1].Env = <<>>
           /\ \E order \in Orders(QueryFlags(input[r].query)) :
                runs[r][1].Args =
                    argsFilter(flagStrings(QueryFlags(input[r].query), order)
                               \o Split(input[r].argsParam, "/"))

\* every element trimmed, those that are then empty dropped
RECURSIVE Sanitize(_)
Sanitize(args) ==
    IF args = <<>> THEN <<>>
    ELSE (IF TrimSpace(Head(args)) = <<>> THEN <<>> ELSE <<TrimSpace(Head(args))>>)
         \o Sanitize(Tail(args))

\* C7: argsFilter returns, in order, the elements that are non-empty after
\* trimming, each trimmed; no element of the result is the empty string.
C7_SanitizeDropsBlank ==
    (call.fn = "argsFilter" /\ ret # <<>>)
    => /\ ret[1] = Sanitize(call.args)
       /\ \A i \in 1..Len(ret[1]) : ret[1][i] # <<>>

\* C8: flagStrings returns the tokens of the pairs in the insertion order of
\* the mapping, the same sequence every time.
C8_FlagStringsInsertionOrder ==
    (call.fn = "flagStrings" /\ ret # <<>>)
    => ret[1] = flagStrings(MapOf(call.pairs), KeysInOrder(call.pairs))

\* C9: for a whitelisted command that was executed, exit code 0 yields a
\* single 200 response carrying the captured output in the shape of the
\* response mode, and any failure yields a single 500 JSON error whose message
\* is the failure reason and carries none of the captured output.
C9_StatusFollowsOutcome ==
    \A r \in Reqs :
        (pc[r] = "done" /\ runs[r] # <<>> /\ inWhitelist(runs[r][1].Path))
        => LET o == result[r][1]
           IN  /\ Len(responses[r]) = 1
               /\ IF o.err = ""
                  THEN /\ responses[r][1].status = 200
                       /\ IF myRunner = "runText"
                          THEN /\ responses[r][1].kind = "text"
                               /\ responses[r][1].body = [text |-> Written(o.chunks, {1, 2})]
                          ELSE /\ responses[r][1].kind = "json"
                               /\ responses[r][1].body =
                                    [stdout |-> Written(o.chunks, {1}),
                                     stderr |-> Written(o.chunks, {2})]
                  ELSE /\ responses[r][1].status = 500
                       /\ responses[r][1].kind = "json"
                       /\ responses[r][1].body = [error |-> "failed to run cmd: " \o o.err]

\* a whitelisted command ran, wrote output, failed, and the request is answered
C9_Witness ==
    \E r \in Reqs :
        /\ pc[r] = "done"
        /\ runs[r] # <<>>
        /\ inWhitelist(runs[r][1].Path)
        /\ result[r][1].err # ""
        /\ result[r][1].chunks # <<>>
        /\ responses[r][1].status = 500

\* the process a request stands for, derived from that request alone
OwnCmd(in) ==
    IF in.method = "GET"
    THEN NewCmd(in.command, argsFilter(Split(in.argsParam, "/")), <<>>)
    ELSE LET cmds == Split(Bind(in.body).req.command, " ")
         IN  NewCmd(cmds[1], argsFilter(Tail(cmds)), <<>>)

\* C10: under any interleaving each request's process is the one derived from
\* that request, no request changes what another one holds, and the
\* configuration is not written once serving has begun.
C10_RequestIsolation ==
    /\ [](\A r \in Reqs :
            /\ pc[r] = "idle" =>
                (runs[r] = <<>> /\ guardCalls[r] = <<>> /\ responses[r] = <<>>)
            /\ runs[r] # <<>> => runs[r] = <<OwnCmd(input[r])>>)
    /\ [][/\ mainPc = "serving" => config' = config
          /\ \A r \in Reqs :
                /\ input[r] # NoInput => input'[r] = input[r]
                /\ runs[r] # <<>> => runs'[r] = runs[r]
                /\ pc'[r] = pc[r] =>
                    (guardCalls'[r] = guardCalls[r] /\ responses'[r] = responses[r]
                        /\ result'[r] = result[r])]_vars

\* two requests for different commands are blocked in their processes at once
C10_Witness ==
    \E r1, r2 \in Reqs :
        /\ r1 # r2
        /\ pc[r1] = "running"
        /\ pc[r2] = "running"
        /\ runs[r1][1].Path # runs[r2][1].Path

====
